---- MODULE Spec2Model ----
(***************************************************************************)
(* Model of the rocket-motor static test stand firmware.                   *)
(*                                                                         *)
(* The repository holds three builds of the same controller:               *)
(*   "bt"  : src/unnamed/part_000        (UNO, wired + SoftwareSerial BT)  *)
(*   "uno" : src/combinedSD.ino 417-915  (UNO, wired only)                 *)
(*   "esp" : src/combinedSD.ino 1-415    (ESP32, wired + BluetoothSerial)  *)
(* The UNO builds share their text except for the BTSerial lines, so one   *)
(* set of definitions (named as in part_000) models both; the ESP32 build  *)
(* has its own handlers (cm, st, sp, ts, log_msg).  State fields keep the  *)
(* UNO names; the ESP32 names are m / run / sd / df / fn / fn_buf / plot / *)
(* bt_on / nd / tm / c.                                                    *)
(*                                                                         *)
(* Handlers are written as operators from a state record to a state        *)
(* record, so that one loop iteration is one action and two executions of  *)
(* a handler from the same state can be compared.                          *)
(***************************************************************************)
EXTENDS Integers, Sequences, FiniteSets, TLC

VARIABLES
  variant,          \* which build runs
  pc,               \* "boot", "loop", "halt" or a wait state of a wizard
  ret,              \* where a wizard returns to: "serial" or "bt" phase of loop()
  echo,             \* part_000:234 the command byte loop() echoes after processCommand
  currentMode,      \* currentMode / m
  testRunning,      \* testRunning / run
  sdCardPresent,    \* sdCardPresent / sd
  dataFile,         \* dataFile / df: the name the handle is open on, or NoFile
  currentFileName,  \* currentFileName / fn_buf
  fileCounter,      \* fileCounter / fn
  plotterMode,      \* plotterMode / plot
  btEnabled,        \* btEnabled / bt_on
  newDataReady,     \* static newDataReady / nd
  t,                \* t / tm: millis() of the last pass of the 20 ms gate
  flushCounter,     \* static flushCounter / c
  calFactor,        \* LoadCell calibration factor in use
  eeprom,           \* persisted calibration factor (EEPROM / Preferences "c")
  tare,             \* LoadCell tare: "idle", "busy" or "done"
  wz,               \* locals of the running wizard
  files,            \* storage: file name -> sequence of lines
  openHandles,      \* names with a File object that was opened and never closed
  unflushed,        \* rows written through dataFile since its last flush
  rxS,              \* wired receive buffer
  rxB,              \* Bluetooth receive buffer
  now,              \* millis()
  out,              \* lines written to each channel by the last step
  ev,               \* what the last step did (observation only)
  afterStop         \* history: the last start or stop command processed was a stop

vars == <<variant, pc, ret, echo, currentMode, testRunning, sdCardPresent, dataFile,
          currentFileName, fileCounter, plotterMode, btEnabled, newDataReady, t,
          flushCounter, calFactor, eeprom, tare, wz, files, openHandles, unflushed,
          rxS, rxB, now, out, ev, afterStop>>

----------------------------------------------------------------------------
(* Program constants *)

MODE_STANDBY == 0
MODE_CALIBRATION == 1
MODE_MEASUREMENT == 2
\* ESP32: m is 0 (idle) or 1 (test running)
ESP_M_RUN == 1
serialPrintInterval == 20
FlushEvery == 20
stabilizingtime == 2000
DefaultCal == 21784     \* 217.84, factors are kept in hundredths
\* what the nonvolatile cell can hold besides a number: nothing (a blank
\* EEPROM cell, which reads as NaN; a Preferences key never written), or a
\* stored NaN.  Both lie outside the factors the model computes.
NoCal == 1000001
NaNCal == 1000002
\* a factor saved by an earlier calibration
SavedCal == 7

(* Bounds of the model *)

MaxPre == 2             \* log files TEST0..TEST<MaxPre-1> may pre-exist on the card
MaxTime == 2021         \* the clock stops advancing here
MaxIndex == 2           \* no start is offered to the program once fileCounter is here
MaxIndexCmd == 1        \* the same, in the console specification

NoFile == ""
Variants == {"bt", "uno", "esp"}
IsUno(s) == s.variant \in {"bt", "uno"}
HasBT(s) == s.variant \in {"bt", "esp"}

\* The mode value that means "measuring" in the build
MeasMode(s) == IF s.variant = "esp" THEN ESP_M_RUN ELSE MODE_MEASUREMENT

----------------------------------------------------------------------------
(* File names *)

getFileName(counter) == "TEST" \o ToString(counter) \o ".CSV"
gn(n) == "/T" \o ToString(n) \o ".CSV"
FileName(s, n) == IF s.variant = "esp" THEN gn(n) ELSE getFileName(n)
testFileName == "TEST_SD.TXT"
espTestFile == "/test.txt"

HeaderUno == "Time(s),Weight(g),Force(N)"
HeaderEsp == "t,w,f"
RowCSV == "<t:3>,<w:2>,<f:3>"
RowPlot == "g:<w> f:<f>"
OldLine == "<old>"

----------------------------------------------------------------------------
(* The environment of one step: what the storage library answers.          *)
(*   begin  : SD.begin() succeeds                                          *)
(*   begin2 : the SD.begin() inside initSDCard(), called from st()         *)
(*   openW  : SD.open(name, FILE_WRITE) returns an open file               *)
(*   write  : print/println to an open file stores the bytes               *)
(*   openR  : SD.open(name) for reading returns an open file               *)

EnvOK       == [begin |-> TRUE,  begin2 |-> TRUE,  openW |-> TRUE,  write |-> TRUE,  openR |-> TRUE]
EnvAbsent   == [begin |-> FALSE, begin2 |-> FALSE, openW |-> FALSE, write |-> FALSE, openR |-> FALSE]
EnvReadOnly == [begin |-> TRUE,  begin2 |-> TRUE,  openW |-> FALSE, write |-> FALSE, openR |-> TRUE]
EnvFull     == [begin |-> TRUE,  begin2 |-> TRUE,  openW |-> TRUE,  write |-> FALSE, openR |-> TRUE]
EnvRemount  == [begin |-> FALSE, begin2 |-> TRUE,  openW |-> TRUE,  write |-> TRUE,  openR |-> TRUE]
Envs == {EnvOK, EnvAbsent, EnvReadOnly, EnvFull, EnvRemount}

----------------------------------------------------------------------------
(* The state as one record *)

Cur == [variant |-> variant, pc |-> pc, ret |-> ret, echo |-> echo,
        currentMode |-> currentMode, testRunning |-> testRunning,
        sdCardPresent |-> sdCardPresent, dataFile |-> dataFile,
        currentFileName |-> currentFileName, fileCounter |-> fileCounter,
        plotterMode |-> plotterMode, btEnabled |-> btEnabled,
        newDataReady |-> newDataReady, t |-> t, flushCounter |-> flushCounter,
        calFactor |-> calFactor, eeprom |-> eeprom, tare |-> tare, wz |-> wz,
        files |-> files, openHandles |-> openHandles, unflushed |-> unflushed,
        rxS |-> rxS, rxB |-> rxB, now |-> now, out |-> out, ev |-> ev,
        afterStop |-> afterStop]

Install(s) ==
  /\ variant' = s.variant /\ pc' = s.pc /\ ret' = s.ret /\ echo' = s.echo
  /\ currentMode' = s.currentMode /\ testRunning' = s.testRunning
  /\ sdCardPresent' = s.sdCardPresent /\ dataFile' = s.dataFile
  /\ currentFileName' = s.currentFileName /\ fileCounter' = s.fileCounter
  /\ plotterMode' = s.plotterMode /\ btEnabled' = s.btEnabled
  /\ newDataReady' = s.newDataReady /\ t' = s.t /\ flushCounter' = s.flushCounter
  /\ calFactor' = s.calFactor /\ eeprom' = s.eeprom /\ tare' = s.tare /\ wz' = s.wz
  /\ files' = s.files /\ openHandles' = s.openHandles /\ unflushed' = s.unflushed
  /\ rxS' = s.rxS /\ rxB' = s.rxB /\ now' = s.now /\ out' = s.out /\ ev' = s.ev
  /\ afterStop' = s.afterStop

NoOut == [S |-> <<>>, B |-> <<>>]
\* cmds: bytes handed to the command handler, with their channel;
\* rows: data rows written to the wired console; appended: files a data row
\* went to; opened: log files a start opened; existed: those of them that
\* were on storage before; started / stopped: a start / stop was processed;
\* sampled: a reading passed the 20 ms gate; flushed: flushes of the log.
NoEv == [cmds |-> <<>>, rows |-> 0, appended |-> {}, opened |-> {}, existed |-> {},
         started |-> FALSE, stopped |-> FALSE, sampled |-> FALSE, flushed |-> 0]

----------------------------------------------------------------------------
(* Console output *)

\* Serial.println(line)
SPrint(s, line) == [s EXCEPT !.out.S = Append(@, line)]
\* BTSerial.println(line), unguarded; the wired-only build has no such line
BPrint(s, line) == IF HasBT(s) THEN [s EXCEPT !.out.B = Append(@, line)] ELSE s
\* if (btEnabled) BTSerial.println(line)
BPrintEn(s, line) == IF s.btEnabled THEN BPrint(s, line) ELSE s
\* Serial.println(line); if (btEnabled) BTSerial.println(line);
Both(s, line) == BPrintEn(SPrint(s, line), line)
\* Serial.println(line); BTSerial.println(line);
BothAlways(s, line) == BPrint(SPrint(s, line), line)
\* ESP32: void log_msg(const String& msg)
log_msg(s, msg) == BPrintEn(SPrint(s, msg), msg)

RECURSIVE PrintAll(_, _, _)
PrintAll(s, lines, i) ==
  IF i > Len(lines) THEN s ELSE PrintAll(SPrint(s, lines[i]), lines, i + 1)
RECURSIVE BPrintAll(_, _, _)
BPrintAll(s, lines, i) ==
  IF i > Len(lines) THEN s ELSE BPrintAll(BPrint(s, lines[i]), lines, i + 1)
RECURSIVE LogAll(_, _, _)
LogAll(s, lines, i) ==
  IF i > Len(lines) THEN s ELSE LogAll(log_msg(s, lines[i]), lines, i + 1)

MenuBT ==
  << "\n==== ROCKET TEST STAND ====", "Commands:", "t - Tare scale to zero",
     "r - Run calibration", "c - Change calibration factor", "s - Start measurement",
     "x - Stop measurement", "p - Toggle plotter mode", "d - Test SD card",
     "b - Toggle Bluetooth", "m - Show menu", "==========================" >>
MenuUno == SelectSeq(MenuBT, LAMBDA l : l # "b - Toggle Bluetooth")
MenuEsp ==
  << "\n=== MENU ===", "t - Tare load cell", "r - Run full calibration", "s - Start test",
     "x - Stop test", "d - Test SD card", "m - Show this menu", "===========" >>

\* void printMenu(): the whole menu to Serial, then to BTSerial if enabled
printMenu(s) ==
  LET lines == IF s.variant = "bt" THEN MenuBT ELSE MenuUno
      s1 == PrintAll(s, lines, 1)
  IN IF s1.btEnabled THEN BPrintAll(s1, lines, 1) ELSE s1
\* ESP32: void mn()
mn(s) == LogAll(s, MenuEsp, 1)

----------------------------------------------------------------------------
(* Storage library, as the handlers use it *)

SDexists(s, name) == name \in DOMAIN s.files

\* File::println on an open file: the line is stored when the medium takes it
WriteLine(s, e, name, line) ==
  IF e.write /\ name \in DOMAIN s.files
  THEN [s EXCEPT !.files[name] = Append(@, line)]
  ELSE s

\* Arduino SD (UNO): FILE_WRITE creates the file if absent and appends
OpenAppend(s, name) ==
  IF name \in DOMAIN s.files THEN s ELSE [s EXCEPT !.files = @ @@ (name :> <<>>)]
\* ESP32 FS: FILE_WRITE is "w": creates or truncates
OpenTruncate(s, name) ==
  [s EXCEPT !.files = [n \in DOMAIN @ \cup {name} |-> IF n = name THEN <<>> ELSE @[n]]]
SDremove(s, name) ==
  [s EXCEPT !.files = [n \in DOMAIN @ \ {name} |-> @[n]]]

\* dataFile = SD.open(...) on the UNO: File has no destructor, the File object
\* dataFile held stays open (its SdFile is leaked), the new one is added.
AssignUno(s, name) ==
  [s EXCEPT !.dataFile = name,
            !.openHandles = @ \cup (IF name = NoFile THEN {} ELSE {name}),
            !.unflushed = 0]
\* df = SD.open(...) on the ESP32: File is a shared pointer, the object it
\* held is destroyed, which closes it.
AssignEsp(s, name) ==
  [s EXCEPT !.dataFile = name,
            !.openHandles = (@ \ {s.dataFile}) \cup (IF name = NoFile THEN {} ELSE {name}),
            !.unflushed = 0]
\* dataFile.close()
CloseFile(s) ==
  [s EXCEPT !.dataFile = NoFile, !.openHandles = @ \ {s.dataFile}, !.unflushed = 0]

----------------------------------------------------------------------------
(* loop(): the sampling path *)

\* millis() > t + serialPrintInterval
Gate(s) == s.now > s.t + serialPrintInterval

\* the data row on the console(s)
PrintRow(s) ==
  LET line == IF s.plotterMode THEN RowPlot ELSE RowCSV
  IN [Both(s, line) EXCEPT !.ev.rows = @ + 1]

\* a row counter that never reaches its flush
FlushStepCountsOnly(s) == [s EXCEPT !.flushCounter = @ + 1]

\* if (++flushCounter >= 20) { dataFile.flush(); flushCounter = 0; }
FlushStep(s) ==
  IF s.flushCounter + 1 >= FlushEvery
  THEN LET s1 == [s EXCEPT !.flushCounter = 0, !.unflushed = 0, !.ev.flushed = @ + 1]
       IN IF s.variant = "esp" THEN log_msg(s1, "Data flushed to SD card") ELSE s1
  ELSE [s EXCEPT !.flushCounter = @ + 1]

\* a log that receives the row in the layout the console receives it
LogRowAsPrinted(s, e) ==
  IF s.sdCardPresent /\ s.dataFile # NoFile
  THEN LET s1 == WriteLine(s, e, s.dataFile, IF s.plotterMode THEN RowPlot ELSE RowCSV)
           s2 == [s1 EXCEPT !.unflushed = @ + 1, !.ev.appended = @ \cup {s.dataFile}]
       IN FlushStep(s2)
  ELSE s

\* if (sdCardPresent && dataFile) { dataFile.print(...); ...flush every 20... }
LogRow(s, e) ==
  IF s.sdCardPresent /\ s.dataFile # NoFile
  THEN LET s1 == WriteLine(s, e, s.dataFile, RowCSV)
           s2 == [s1 EXCEPT !.unflushed = @ + 1, !.ev.appended = @ \cup {s.dataFile}]
       IN FlushStep(s2)
  ELSE s

\* rows emitted whenever the run flag is set, whatever the mode
EmitSampleWhileRunning(s, e) ==
  IF s.testRunning THEN LogRow(PrintRow(s), e) ELSE s

\* if (currentMode == MODE_MEASUREMENT && testRunning) { ... }
EmitSample(s, e) ==
  IF s.currentMode = MeasMode(s) /\ s.testRunning
  THEN LogRow(PrintRow(s), e)
  ELSE s

\* if (LoadCell.update()) newDataReady = true;
\* if (newDataReady) { if (millis() > t + serialPrintInterval) { ... } }
SamplePhase(s, e, rdy) ==
  LET s1 == IF rdy THEN [s EXCEPT !.newDataReady = TRUE] ELSE s
  IN IF s1.newDataReady /\ Gate(s1)
     THEN EmitSample([s1 EXCEPT !.newDataReady = FALSE, !.t = s1.now,
                                !.ev.sampled = TRUE], e)
     ELSE s1

----------------------------------------------------------------------------
(* Start and stop, UNO builds *)

\* void startMeasurement()
startMeasurement(s, e) ==
  LET s1 == IF ~s.plotterMode
            THEN Both(Both(s, "MEASUREMENT STARTED"), HeaderUno)
            ELSE s
      name == getFileName(s.fileCounter)
      ok == e.openW
      \* strcpy(currentFileName, ...); dataFile = SD.open(currentFileName, FILE_WRITE);
      s2 == [s1 EXCEPT !.currentFileName = name]
      s3 == AssignUno(IF ok THEN OpenAppend(s2, name) ELSE s2, IF ok THEN name ELSE NoFile)
      s4 == IF ~s1.sdCardPresent
            THEN Both(s1, "SD card not available")
            ELSE IF ok
            THEN LET a == Both(s3, "Logging to: " \o name)
                     \* dataFile.println(header); dataFile.flush(); fileCounter++;
                     b == WriteLine(a, e, name, HeaderUno)
                 IN [b EXCEPT !.fileCounter = @ + 1,
                              !.ev.opened = @ \cup {name},
                              !.ev.existed = @ \cup (IF SDexists(s, name) THEN {name} ELSE {})]
            ELSE Both(s3, "Error opening file!")
  IN [s4 EXCEPT !.currentMode = MODE_MEASUREMENT, !.testRunning = TRUE,
                !.ev.started = TRUE]

\* a stop that saves the file and leaves the run state as it was
stopMeasurementKeepsRunning(s) ==
  LET s1 == [s EXCEPT !.ev.stopped = TRUE]
      s2 == IF s1.dataFile # NoFile
            THEN Both(CloseFile(s1), "Data saved to " \o s1.currentFileName)
            ELSE s1
  IN IF ~s2.plotterMode THEN Both(s2, "MEASUREMENT STOPPED") ELSE s2

\* void stopMeasurement()
stopMeasurement(s) ==
  LET s1 == [s EXCEPT !.testRunning = FALSE, !.ev.stopped = TRUE]
      s2 == IF s1.dataFile # NoFile
            THEN Both(CloseFile(s1), "Data saved to " \o s1.currentFileName)
            ELSE s1
      s3 == IF ~s2.plotterMode THEN Both(s2, "MEASUREMENT STOPPED") ELSE s2
  IN [s3 EXCEPT !.currentMode = MODE_STANDBY]

----------------------------------------------------------------------------
(* Start and stop, ESP32 build *)

\* an allocation that trusts the last known index without probing storage
NextFreeLastKnown(s, n) == n

RECURSIVE NextFree(_, _)
\* while (SD.exists(gn(fn))) fn++;
NextFree(s, n) == IF SDexists(s, FileName(s, n)) THEN NextFree(s, n + 1) ELSE n

\* void initSDCard(): mount, then scan for the next free file number
initSDCard(s, mounted) ==
  LET s0 == log_msg(s, "Initializing SD card...")
  IN IF ~mounted
     THEN [LogAll(s0, << "SD Card Mount Failed! Check:", "- CS pin connection (GPIO 5)",
                         "- SD card insertion",
                         "- SPI connections (MOSI:23,MISO:19,SCK:18)" >>, 1)
             EXCEPT !.sdCardPresent = FALSE]
     ELSE LET s1 == LogAll(s0, << "SD Card Type: <type>", "SD Card Size: <n>MB",
                                  "SD card initialization done." >>, 1)
              n == NextFree(s1, s1.fileCounter)
          IN log_msg([s1 EXCEPT !.sdCardPresent = TRUE, !.fileCounter = n],
                     "Next test file will be: " \o gn(n))

\* the diagnosis st() runs when the data file could not be created
stDiagnose(s, e) ==
  LET s1 == LogAll(s, << "ERROR: Failed to create data file!", "Check:",
                         "- SD card write protection", "- Available space",
                         "- File system errors", "Available space: <n>KB" >>, 1)
  IN IF ~e.openW
     THEN log_msg(s1, "ERROR: Cannot write to root directory!")
     ELSE log_msg(SDremove(OpenTruncate(s1, espTestFile), espTestFile),
                  "Root directory is writable")

\* void st(), from the point where the card is known to be mounted
stOpen(s, e) ==
  LET name == gn(s.fileCounter)
      s1 == log_msg([s EXCEPT !.currentFileName = name], "Creating new test file: " \o name)
      had == SDexists(s1, name)
      s2 == IF had THEN SDremove(log_msg(s1, "Removing existing file..."), name) ELSE s1
      ok == e.openW
      s3 == AssignEsp(IF ok THEN OpenTruncate(s2, name) ELSE s2, IF ok THEN name ELSE NoFile)
      s3e == [s3 EXCEPT !.ev.opened = @ \cup (IF ok THEN {name} ELSE {}),
                        !.ev.existed = @ \cup (IF ok /\ had THEN {name} ELSE {})]
  IN IF ~ok
     THEN stDiagnose(s3e, e)
     ELSE LET s4 == log_msg(s3e, "Test file created successfully")
          IN IF ~e.write
             THEN CloseFile(log_msg(s4, "ERROR: Failed to write header!"))
             ELSE LET s5 == WriteLine(s4, e, name, HeaderEsp)
                  IN log_msg([s5 EXCEPT !.fileCounter = @ + 1, !.currentMode = ESP_M_RUN,
                                        !.testRunning = TRUE], "Test started")

\* void st()
st(s0, e) ==
  LET s == [s0 EXCEPT !.ev.started = TRUE]
  IN IF ~s.sdCardPresent
     THEN log_msg([log_msg(s, "WARNING: SD card not available, proceeding without logging")
                     EXCEPT !.currentMode = ESP_M_RUN, !.testRunning = TRUE],
                  "Test started")
     ELSE IF e.begin
     THEN stOpen(s, e)
     ELSE LET s1 == initSDCard(log_msg(s, "WARNING: SD card reinitialization needed"),
                               e.begin2)
          IN IF ~s1.sdCardPresent
             THEN log_msg(s1, "ERROR: SD card initialization failed!")
             ELSE stOpen(s1, e)

\* void sp()
sp(s) ==
  LET s1 == [s EXCEPT !.testRunning = FALSE, !.ev.stopped = TRUE]
      s2 == IF s1.dataFile # NoFile
            THEN log_msg(CloseFile(s1), "Test stopped and file saved: " \o s1.currentFileName)
            ELSE log_msg(s1, "Test stopped (no file was open)")
  IN [s2 EXCEPT !.currentMode = MODE_STANDBY]

----------------------------------------------------------------------------
(* Storage self-test *)

TestLinesUno == << "SD Card Test File", "If you can read this, SD card works!" >>
TestLineEsp == "SD Card Test OK"

RECURSIVE WriteAll(_, _, _, _, _)
WriteAll(s, e, name, lines, i) ==
  IF i > Len(lines) THEN s ELSE WriteAll(WriteLine(s, e, name, lines[i]), e, name, lines, i + 1)

\* the names on the card in the order printDirectory lists them
RECURSIVE SetToSeq(_)
SetToSeq(S) ==
  IF S = {} THEN <<>>
  ELSE LET x == CHOOSE y \in S : TRUE IN <<x>> \o SetToSeq(S \ {x})

\* void printDirectory(File dir, int numTabs): one line per entry
printDirectory(s) ==
  LET names == SetToSeq(DOMAIN s.files)
      lines == [i \in 1..Len(names) |-> names[i] \o "\t\t<size> bytes"]
      RECURSIVE Each(_, _)
      Each(x, i) == IF i > Len(lines) THEN x ELSE Each(Both(x, lines[i]), i + 1)
  IN Each(s, 1)

\* testSDCard() from "Test write/read operations" on
testSDCardRW(s, e) ==
  LET s1 == Both(s, "Creating test file: " \o testFileName)
  IN IF ~e.openW
     THEN Both(s1, "Error creating test file!")
     ELSE LET s2 == WriteAll(OpenAppend(s1, testFileName), e, testFileName, TestLinesUno, 1)
              s3 == Both(s2, "Test file written.")
          IN IF ~e.openR
             THEN Both(s3, "Error reading test file!")
             ELSE LET s4 == Both(Both(s3, "Reading test file:"), "---------------------")
                      body == s4.files[testFileName]
                      RECURSIVE Dump(_, _)
                      Dump(x, i) == IF i > Len(body) THEN x ELSE Dump(Both(x, body[i]), i + 1)
                      s5 == Both(Dump(s4, 1), "\n---------------------")
                      s6 == printDirectory(Both(s5, "Files on SD card:"))
                  IN Both(s6, "SD card test successful!")

\* a self-test that ends the session the way a stop does
testSDCardEndsSession(s, e) == stopMeasurement(s)

\* void testSDCard()
testSDCard(s, e) ==
  LET s0 == Both(s, "*** TESTING SD CARD ***")
  IN IF ~s0.sdCardPresent
     THEN LET s1 == Both(s0, "SD card not initialized. Trying...")
          IN IF e.begin
             THEN testSDCardRW([Both(s1, "SD card initialized!") EXCEPT !.sdCardPresent = TRUE], e)
             ELSE Both(s1, "SD card failed! Check wiring.")
     ELSE testSDCardRW(Both(s0, "SD card is present."), e)

\* ESP32: void ts()
ts(s, e) ==
  LET s0 == log_msg(s, "Starting SD card test...")
  IN IF ~s0.sdCardPresent /\ ~e.begin
     THEN LogAll(s0, << "ERROR: SD initialization failed!", "Check SD card connections" >>, 1)
     ELSE LET s1 == log_msg(s0, "Creating test file...")
          IN IF ~e.openW
             THEN LogAll(s1, << "ERROR: File creation failed!", "Check:",
                                "- SD card write protection", "- Available space",
                                "- File system errors" >>, 1)
             ELSE LET s2 == WriteLine(OpenTruncate(s1, espTestFile), e, espTestFile, TestLineEsp)
                  IN IF ~e.openR
                     THEN log_msg(s2, "ERROR: Failed to read test file!")
                     ELSE LET content == IF s2.files[espTestFile] = <<>> THEN ""
                                         ELSE s2.files[espTestFile][1]
                              s3 == SDremove(s2, espTestFile)
                          IN log_msg(log_msg(s3, "SD card test completed successfully"),
                                     "Read test content: " \o content)

----------------------------------------------------------------------------
(* Load cell driver and stream parsing, as the handlers use them *)

\* LoadCell.update(): rdy says a conversion was read; a tare in progress may
\* finish on it (tdone)
Update(s, rdy, tdone) ==
  IF rdy /\ tdone /\ s.tare = "busy" THEN [s EXCEPT !.tare = "done"] ELSE s
\* LoadCell.tareNoDelay()
tareNoDelay(s) == [s EXCEPT !.tare = "busy"]
\* LoadCell.getTareStatus(): true once per finished tare, reading clears it
TareStatus(s) == s.tare = "done"
ClearTareStatus(s) == IF s.tare = "done" THEN [s EXCEPT !.tare = "idle"] ELSE s
\* LoadCell.getNewCalibration(known_mass): the driver divides its averaged raw
\* reading by the mass; RawReading stands for that reading
RawReading == 400
getNewCalibration(mass) == IF mass = 0 THEN 0 ELSE RawReading \div mass

\* Items of a receive buffer are strings: a command byte, a line end, or a
\* number as typed.
NumToks == {"5", "0", "-5"}
NumVal(tok) == CASE tok = "5" -> 5 [] tok = "-5" -> -5 [] OTHER -> 0
RECURSIVE parseFloat(_)
\* Stream::parseFloat(): skips (and consumes) everything before a number,
\* returns the number and leaves what follows it; 0 when none comes
parseFloat(rx) ==
  IF rx = <<>> THEN [v |-> 0, rest |-> <<>>]
  ELSE IF Head(rx) \in NumToks THEN [v |-> NumVal(Head(rx)), rest |-> Tail(rx)]
  ELSE parseFloat(Tail(rx))

NoWz == [known_mass |-> 0, newCalibrationValue |-> 0]
WizardPcs == {"cal_tare", "cal_mass", "cal_yn", "ccf_val", "ccf_yn",
              "cl_tare", "cl_mass", "cl_yn", "cc_val", "cc_yn"}
\* the wizard's reads of the Bluetooth buffer are guarded by btEnabled (UNO)
BtReadable(s) == s.variant = "bt" /\ s.btEnabled /\ s.rxB # <<>>

----------------------------------------------------------------------------
(* Calibration wizard, UNO builds: one operator per wait loop, each models  *)
(* one pass of the loop body and what follows the loop when it ends         *)

\* a save prompt that stores the proposal before it is answered
SaveAskStoresFirst(s) ==
  [Both(s, "Save to EEPROM? (y/n): ") EXCEPT !.eeprom = s.wz.newCalibrationValue]

\* the question that opens the accept/reject loop
SaveAsk(s) == Both(s, "Save to EEPROM? (y/n): ")

\* void calibrate(), up to the first wait loop
calibrate(s) ==
  LET s1 == PrintAll(s, << "*** CALIBRATION ***", "Remove any load.", "Send 't' to tare." >>, 1)
      s2 == IF s1.btEnabled
            THEN BPrintAll(s1, << "*** CALIBRATION ***", "Remove any load.",
                                  "Send 't' to tare." >>, 1)
            ELSE s1
  IN [s2 EXCEPT !.pc = "cal_tare", !.wz = NoWz]

\* calibrate(): the tare wait loop
calTareStep(s, rdy, tdone) ==
  LET s1 == Update(s, rdy, tdone)
      s2 == IF s1.rxS # <<>>
            THEN LET b == Head(s1.rxS)
                     r == [s1 EXCEPT !.rxS = Tail(@)]
                 IN IF b = "t" THEN tareNoDelay(r) ELSE r
            ELSE s1
      s3 == IF BtReadable(s2)
            THEN LET b == Head(s2.rxB)
                     r == [s2 EXCEPT !.rxB = Tail(@)]
                 IN IF b = "t" THEN tareNoDelay(r) ELSE r
            ELSE s2
  IN IF TareStatus(s3)
     THEN LET s4 == Both(ClearTareStatus(s3), "Tare complete")
              s5 == Both(Both(s4, "Place calibration weight"), "Send weight in grams")
          IN [s5 EXCEPT !.pc = "cal_mass", !.wz.known_mass = 0]
     ELSE s3

\* calibrate(): the reference-mass wait loop, then the proposal
calMassStep(s, rdy, tdone) ==
  LET s1 == Update(s, rdy, tdone)
      pS == parseFloat(s1.rxS)
      gotS == s1.rxS # <<>>
      s2 == IF gotS
            THEN LET r == [s1 EXCEPT !.rxS = pS.rest, !.wz.known_mass = pS.v]
                 IN IF pS.v # 0 THEN Both(r, "Known mass: " \o ToString(pS.v)) ELSE r
            ELSE s1
      resS == gotS /\ pS.v # 0
      pB == parseFloat(s2.rxB)
      gotB == BtReadable(s2)
      s3 == IF gotB
            THEN LET r == [s2 EXCEPT !.rxB = pB.rest, !.wz.known_mass = pB.v]
                 IN IF pB.v # 0 THEN BothAlways(r, "Known mass: " \o ToString(pB.v)) ELSE r
            ELSE s2
      resB == gotB /\ pB.v # 0
  IN IF resS \/ resB
     THEN LET c == getNewCalibration(s3.wz.known_mass)
              s4 == Both([s3 EXCEPT !.wz.newCalibrationValue = c],
                         "New cal value: " \o ToString(c))
          IN [SaveAsk(s4) EXCEPT !.pc = "cal_yn"]
     ELSE s3

\* the accept/reject wait loop shared by calibrate() and changeSavedCalFactor():
\* [s |-> state, resume |-> the loop ends]
YnPass(s) ==
  LET v == s.wz.newCalibrationValue
      s2 == IF s.rxS # <<>>
            THEN LET b == Head(s.rxS)
                     r == [s EXCEPT !.rxS = Tail(@)]
                 IN IF b = "y" THEN Both([r EXCEPT !.eeprom = v], "Value saved: " \o ToString(v))
                    ELSE IF b = "n" THEN Both(r, "Value not saved")
                    ELSE r
            ELSE s
      resS == s.rxS # <<>> /\ Head(s.rxS) \in {"y", "n"}
      gotB == BtReadable(s2)
      s3 == IF gotB
            THEN LET b == Head(s2.rxB)
                     r == [s2 EXCEPT !.rxB = Tail(@)]
                 IN IF b = "y"
                    THEN BothAlways([r EXCEPT !.eeprom = v], "Value saved: " \o ToString(v))
                    ELSE IF b = "n" THEN BothAlways(r, "Value not saved")
                    ELSE r
            ELSE s2
      resB == gotB /\ Head(s2.rxB) \in {"y", "n"}
  IN [s |-> s3, resume |-> resS \/ resB]

\* calibrate(): the accept/reject loop and the end of the function
calYnStep(s) ==
  LET p == YnPass(s)
  IN IF p.resume
     THEN LET s1 == [p.s EXCEPT !.calFactor = p.s.wz.newCalibrationValue]
              s2 == Both(s1, "Calibration complete")
          IN [printMenu([s2 EXCEPT !.currentMode = MODE_STANDBY]) EXCEPT !.pc = "return"]
     ELSE p.s

\* void changeSavedCalFactor(), up to the first wait loop
changeSavedCalFactor(s) ==
  LET lines == << "*** MANUAL CALIBRATION ***", "Current: " \o ToString(s.calFactor),
                  "Enter new value:" >>
      s1 == PrintAll(s, lines, 1)
      s2 == IF s1.btEnabled THEN BPrintAll(s1, lines, 1) ELSE s1
  IN [s2 EXCEPT !.pc = "ccf_val", !.wz = NoWz]

\* changeSavedCalFactor(): the new-value wait loop
ccfValStep(s) ==
  LET pS == parseFloat(s.rxS)
      gotS == s.rxS # <<>>
      s2 == IF gotS
            THEN LET r == [s EXCEPT !.rxS = pS.rest, !.wz.newCalibrationValue = pS.v]
                 IN IF pS.v # 0
                    THEN [Both(r, "New value: " \o ToString(pS.v)) EXCEPT !.calFactor = pS.v]
                    ELSE r
            ELSE s
      resS == gotS /\ pS.v # 0
      pB == parseFloat(s2.rxB)
      gotB == BtReadable(s2)
      s3 == IF gotB
            THEN LET r == [s2 EXCEPT !.rxB = pB.rest, !.wz.newCalibrationValue = pB.v]
                 IN IF pB.v # 0
                    THEN [BothAlways(r, "New value: " \o ToString(pB.v)) EXCEPT !.calFactor = pB.v]
                    ELSE r
            ELSE s2
      resB == gotB /\ pB.v # 0
  IN IF resS \/ resB THEN [SaveAsk(s3) EXCEPT !.pc = "ccf_yn"] ELSE s3

\* changeSavedCalFactor(): the accept/reject loop and the end of the function
ccfYnStep(s) ==
  LET p == YnPass(s)
  IN IF p.resume
     THEN [printMenu([p.s EXCEPT !.currentMode = MODE_STANDBY]) EXCEPT !.pc = "return"]
     ELSE p.s

----------------------------------------------------------------------------
(* Calibration wizard, ESP32 build *)

\* Serial.available() ? Serial.parseFloat() : bt.parseFloat()
espParse(s) ==
  IF s.rxS # <<>>
  THEN LET p == parseFloat(s.rxS) IN [s |-> [s EXCEPT !.rxS = p.rest], v |-> p.v]
  ELSE LET p == parseFloat(s.rxB) IN [s |-> [s EXCEPT !.rxB = p.rest], v |-> p.v]

\* (Serial.available() && Serial.read() == b) || (bt.available() && bt.read() == b):
\* a byte is read from a channel whenever the test reaches it
espReadIs(s, b) ==
  LET hitS == s.rxS # <<>> /\ Head(s.rxS) = b
      s1 == IF s.rxS # <<>> THEN [s EXCEPT !.rxS = Tail(@)] ELSE s
  IN IF hitS THEN [s |-> s1, hit |-> TRUE]
     ELSE IF s1.rxB # <<>>
     THEN [s |-> [s1 EXCEPT !.rxB = Tail(@)], hit |-> Head(s1.rxB) = b]
     ELSE [s |-> s1, hit |-> FALSE]

\* cl(): after the tare loop
clAfterTare(s) ==
  [log_msg(s, "Tare complete. Place known weight and enter weight in grams:")
     EXCEPT !.pc = "cl_mass"]

\* void cl(), up to the first wait loop; the loop test runs before its body
cl(s) ==
  LET s1 == LogAll(s, << "Starting full calibration procedure",
                         "Remove all weight and send 't' when ready" >>, 1)
      s2 == [s1 EXCEPT !.wz = NoWz]
  IN IF TareStatus(s2) THEN clAfterTare(ClearTareStatus(s2))
     ELSE [s2 EXCEPT !.pc = "cl_tare"]

\* cl(): one pass of while(!lc.getTareStatus()) { ... } and the next loop test
clTareStep(s, rdy, tdone) ==
  LET s1 == Update(s, rdy, tdone)
      s2 == IF s1.rxS # <<>>
            THEN LET r == [s1 EXCEPT !.rxS = Tail(@)]
                 IN IF Head(s1.rxS) = "t" THEN tareNoDelay(r) ELSE r
            ELSE s1
      s3 == IF s2.rxB # <<>>
            THEN LET r == [s2 EXCEPT !.rxB = Tail(@)]
                 IN IF Head(s2.rxB) = "t" THEN tareNoDelay(r) ELSE r
            ELSE s2
  IN IF TareStatus(s3) THEN clAfterTare(ClearTareStatus(s3)) ELSE s3

\* cl(): the wait for the mass, and the proposal
clMassStep(s, rdy, tdone) ==
  IF s.rxS = <<>> /\ s.rxB = <<>> THEN Update(s, rdy, tdone)
  ELSE LET p == espParse(s)
       IN IF p.v <= 0
          THEN [log_msg(p.s, "Invalid weight entered, calibration aborted")
                  EXCEPT !.pc = "return"]
          ELSE LET c == getNewCalibration(p.v)
                   s1 == [p.s EXCEPT !.wz.known_mass = p.v, !.wz.newCalibrationValue = c]
                   s2 == LogAll(s1, << "Calculating new calibration factor...",
                                       "Proposed calibration factor: " \o ToString(c),
                                       "Accept? (y/n)" >>, 1)
               IN [s2 EXCEPT !.pc = "cl_yn"]

\* cl(): the accept/reject test and the end of the function
clYnStep(s) ==
  IF s.rxS = <<>> /\ s.rxB = <<>> THEN s
  ELSE LET c == s.wz.newCalibrationValue
           y == espReadIs(s, "y")
           n == espReadIs(y.s, "n")
           s1 == IF y.hit
                 THEN log_msg([y.s EXCEPT !.eeprom = c, !.calFactor = c],
                              "New calibration factor saved: " \o ToString(c))
                 ELSE IF n.hit THEN log_msg(n.s, "Calibration cancelled")
                 ELSE n.s
       IN [s1 EXCEPT !.currentMode = MODE_STANDBY, !.pc = "return"]

\* void cc(), up to the first wait
cc(s) ==
  LET s1 == LogAll(s, << "Current calibration factor: " \o ToString(s.calFactor),
                         "Enter new calibration factor:" >>, 1)
  IN [s1 EXCEPT !.pc = "cc_val", !.wz = NoWz]

\* cc(): the wait for the factor
ccValStep(s) ==
  IF s.rxS = <<>> /\ s.rxB = <<>> THEN s
  ELSE LET p == espParse(s)
       IN IF p.v <= 0
          THEN [log_msg(p.s, "Invalid calibration factor, operation cancelled")
                  EXCEPT !.pc = "return"]
          ELSE [log_msg([p.s EXCEPT !.calFactor = p.v, !.wz.newCalibrationValue = p.v],
                        "Test new calibration factor. Accept? (y/n)")
                  EXCEPT !.pc = "cc_yn"]

\* cc(): the accept/reject test and the end of the function
ccYnStep(s) ==
  IF s.rxS = <<>> /\ s.rxB = <<>> THEN s
  ELSE LET c == s.wz.newCalibrationValue
           y == espReadIs(s, "y")
           s1 == IF y.hit
                 THEN log_msg([y.s EXCEPT !.eeprom = c],
                              "New calibration factor saved: " \o ToString(c))
                 ELSE log_msg(y.s, "Calibration change cancelled")
       IN [s1 EXCEPT !.currentMode = MODE_STANDBY, !.pc = "return"]

----------------------------------------------------------------------------
(* Command dispatch *)

\* void processCommand(char command); the wired-only build has no case 'b'
processCommand(s, e, command) ==
  CASE command = "t" -> BothAlways(tareNoDelay(s), "Taring...")
    [] command = "r" -> calibrate([s EXCEPT !.currentMode = MODE_CALIBRATION])
    [] command = "c" -> changeSavedCalFactor(s)
    [] command = "s" -> startMeasurement(s, e)
    [] command = "x" -> stopMeasurement(s)
    [] command = "m" -> printMenu(s)
    [] command = "p" ->
         LET s1 == [s EXCEPT !.plotterMode = ~@]
         IN BothAlways(s1, IF s1.plotterMode THEN "Plotter ON" ELSE "Plotter OFF")
    [] command = "d" -> testSDCard(s, e)
    [] command = "b" /\ s.variant = "bt" ->
         LET s1 == [s EXCEPT !.btEnabled = ~@]
         IN BPrintEn(SPrint(s1, IF s1.btEnabled THEN "Bluetooth ON" ELSE "Bluetooth OFF"),
                     "Bluetooth ON")
    [] OTHER -> s

\* ESP32: void cm(char c)
cm(s0, e, c) ==
  LET s == log_msg(s0, "Received command: " \o c)
  IN CASE c = "t" -> tareNoDelay(log_msg(s, "Starting tare operation..."))
       [] c = "r" -> cl(log_msg(s, "Starting full calibration..."))
       [] c = "c" -> cc(log_msg(s, "Starting manual calibration..."))
       [] c = "s" -> st(log_msg(s, "Starting test..."), e)
       [] c = "x" -> sp(log_msg(s, "Stopping test..."))
       [] c = "p" ->
            LET s1 == [s EXCEPT !.plotterMode = ~@]
            IN log_msg(s1, IF s1.plotterMode THEN "Plot mode enabled" ELSE "Plot mode disabled")
       [] c = "d" -> ts(log_msg(s, "Testing SD card..."), e)
       [] c = "b" ->
            LET s1 == [s EXCEPT !.btEnabled = ~@]
            IN log_msg(s1, IF s1.btEnabled THEN "Bluetooth enabled" ELSE "Bluetooth disabled")
       [] c = "m" -> mn(log_msg(s, "Displaying menu..."))
       [] OTHER -> s

\* the command letters of processCommand() / cm()
KnownBytes == {"t", "r", "c", "s", "x", "p", "d", "b", "m"}

\* a dispatcher whose switch falls back to the menu for any other byte
DispatchDefaultsToMenu(s, e, ch, c) ==
  LET k  == IF c \in KnownBytes THEN c ELSE "m"
      s1 == [s EXCEPT !.ev.cmds = Append(@, <<ch, c>>)]
  IN IF s.variant = "esp" THEN cm(s1, e, k) ELSE processCommand(s1, e, k)

Dispatch(s, e, ch, c) ==
  LET s1 == [s EXCEPT !.ev.cmds = Append(@, <<ch, c>>),
                      !.afterStop = IF c = "x" THEN TRUE ELSE IF c = "s" THEN FALSE ELSE @]
  IN IF s.variant = "esp" THEN cm(s1, e, c) ELSE processCommand(s1, e, c)

----------------------------------------------------------------------------
(* loop(): command polling and the tare notice *)

\* if (LoadCell.getTareStatus() == true) { "Tare complete" on both, unguarded }
TarePhase(s) ==
  IF TareStatus(s)
  THEN IF s.variant = "esp"
       THEN log_msg(ClearTareStatus(s), "Tare completed successfully")
       ELSE BothAlways(ClearTareStatus(s), "Tare complete")
  ELSE s

\* part_000: BTSerial.print("Received command: "); BTSerial.println(command);
EchoBT(s) ==
  IF s.variant = "bt" THEN [BPrint(s, "Received command: " \o s.echo) EXCEPT !.echo = ""]
  ELSE s

\* a Bluetooth poll that reads the byte and confirms it without handling it
BTPhaseReceiptOnly(s, e) ==
  IF HasBT(s) /\ s.rxB # <<>>
  THEN EchoBT([s EXCEPT !.rxB = Tail(@), !.echo = IF s.variant = "bt" THEN Head(s.rxB) ELSE ""])
  ELSE s

\* if (BTSerial.available() > 0) { processCommand(BTSerial.read()); echo }
\* a wizard entered from here leaves pc at its wait state, with ret = "bt"
BTPhase(s, e) ==
  IF HasBT(s) /\ s.rxB # <<>>
  THEN LET c == Head(s.rxB)
           s1 == Dispatch([s EXCEPT !.rxB = Tail(@), !.ret = "bt",
                                    !.echo = IF s.variant = "bt" THEN c ELSE ""], e, "B", c)
       IN IF s1.pc = "loop" THEN [EchoBT(s1) EXCEPT !.ret = "serial"] ELSE s1
  ELSE s

\* if (Serial.available() > 0) { processCommand(Serial.read()); }
SerialPhase(s, e) ==
  IF s.rxS # <<>>
  THEN Dispatch([s EXCEPT !.rxS = Tail(@), !.ret = "serial"], e, "S", Head(s.rxS))
  ELSE s

\* the rest of loop() after the wired poll
AfterSerial(s, e) ==
  LET s1 == BTPhase(s, e) IN IF s1.pc = "loop" THEN TarePhase(s1) ELSE s1

\* the rest of loop() after a wizard returns; its locals are gone
Resume(s, e) ==
  LET s1 == [s EXCEPT !.pc = "loop", !.wz = NoWz]
  IN IF s.ret = "serial" THEN AfterSerial(s1, e)
     ELSE TarePhase([EchoBT(s1) EXCEPT !.ret = "serial"])

\* a loop() that polls Bluetooth before the wired channel
loopBluetoothFirst(s, e, rdy, tdone) ==
  LET s1 == SamplePhase(Update(s, rdy, tdone), e, rdy)
      s2 == BTPhase(s1, e)
      s3 == IF s2.pc = "loop" THEN SerialPhase(s2, e) ELSE s2
  IN IF s3.pc = "loop" THEN TarePhase(s3) ELSE s3

\* void loop()
loop(s, e, rdy, tdone) ==
  LET s1 == SamplePhase(Update(s, rdy, tdone), e, rdy)
      s2 == SerialPhase(s1, e)
  IN IF s2.pc = "loop" THEN AfterSerial(s2, e) ELSE s2

\* one pass of the wait loop the wizard is in
wizard(s, e, rdy, tdone) ==
  LET s1 == CASE s.pc = "cal_tare" -> calTareStep(s, rdy, tdone)
              [] s.pc = "cal_mass" -> calMassStep(s, rdy, tdone)
              [] s.pc = "cal_yn"   -> calYnStep(s)
              [] s.pc = "ccf_val"  -> ccfValStep(s)
              [] s.pc = "ccf_yn"   -> ccfYnStep(s)
              [] s.pc = "cl_tare"  -> clTareStep(s, rdy, tdone)
              [] s.pc = "cl_mass"  -> clMassStep(s, rdy, tdone)
              [] s.pc = "cl_yn"    -> clYnStep(s)
              [] s.pc = "cc_val"   -> ccValStep(s)
              [] s.pc = "cc_yn"    -> ccYnStep(s)
  IN IF s1.pc = "return" THEN Resume(s1, e) ELSE s1

----------------------------------------------------------------------------
(* setup() *)

\* what EEPROM.get / Preferences.getFloat hand to setCalFactor
\* UNO: if (isnan(calibrationValue) || calibrationValue == 0) 217.84
\* ESP32: p.getFloat("c", 217.84), the default only when the key is missing
BootCal(s) ==
  IF s.variant = "esp"
  THEN IF s.eeprom = NoCal THEN DefaultCal ELSE s.eeprom
  ELSE IF s.eeprom \in {NoCal, NaNCal, 0} THEN DefaultCal ELSE s.eeprom

\* void setup(), UNO builds.  tmo: "none", or the timeout flag the driver raised
setupUno(s, e, tmo) ==
  LET s1 == BothAlways(s, IF s.variant = "bt" THEN "Model Rocket Test Stand with Bluetooth"
                          ELSE "Model Rocket Test Stand")
      s2 == IF e.begin
            THEN LET n == NextFree(s1, s1.fileCounter)
                 IN BothAlways(BothAlways([s1 EXCEPT !.sdCardPresent = TRUE, !.fileCounter = n],
                                          "SD card present"),
                               "Next file: TEST" \o ToString(n) \o ".CSV")
            ELSE BothAlways([s1 EXCEPT !.sdCardPresent = FALSE], "SD card failed/missing")
      s3 == [s2 EXCEPT !.calFactor = BootCal(s2), !.now = stabilizingtime]
  IN IF tmo # "none"
     THEN [BothAlways(s3, "Timeout, check wiring") EXCEPT !.pc = "halt"]
     ELSE LET s4 == BothAlways(BothAlways(s3, "Test Stand Ready"),
                               "Cal factor: " \o ToString(s3.calFactor))
          IN [printMenu(s4) EXCEPT !.pc = "loop"]

\* void setup(), ESP32 build: no timeout flag is read; without a signal
\* while(!lc.update()) never ends
setupEsp(s, e, tmo) ==
  LET s1 == LogAll(s, << "Starting ESP32 Rocket Test Stand...", "Initializing Bluetooth...",
                         "Bluetooth initialized with name: RT" >>, 1)
      s2 == initSDCard(s1, e.begin)
      c == BootCal(s2)
      s3 == LogAll([s2 EXCEPT !.calFactor = c, !.now = stabilizingtime],
                   << "Initializing load cell...",
                      "Using calibration factor: " \o ToString(c),
                      "Starting load cell...", "Waiting for first valid reading..." >>, 1)
  IN IF tmo = "signal"
     THEN [s3 EXCEPT !.pc = "halt"]
     ELSE [mn(log_msg(s3, "Load cell initialized successfully")) EXCEPT !.pc = "loop"]

setup(s, e, tmo) == IF s.variant = "esp" THEN setupEsp(s, e, tmo) ELSE setupUno(s, e, tmo)

----------------------------------------------------------------------------
(* Initial states and actions *)

Range(q) == {q[i] : i \in 1..Len(q)}

PreFiles(v, P) ==
  [n \in {(IF v = "esp" THEN gn(i) ELSE getFileName(i)) : i \in P} |-> << OldLine >>]

\* the globals as the build initialises them; the card holds any of the log
\* files TEST0..TEST<MaxPre-1> from earlier runs
InitWith(V, Pre, Cals) ==
  /\ variant \in V
  /\ pc = "boot" /\ ret = "serial" /\ echo = ""
  /\ currentMode = MODE_STANDBY /\ testRunning = FALSE /\ sdCardPresent = FALSE
  /\ dataFile = NoFile /\ currentFileName = "" /\ fileCounter = 0
  /\ plotterMode = FALSE /\ btEnabled = TRUE
  /\ newDataReady = FALSE /\ t = 0 /\ flushCounter = 0
  /\ calFactor = 1 /\ eeprom \in Cals /\ tare = "idle" /\ wz = NoWz
  /\ \E P \in Pre : files = PreFiles(variant, P)
  /\ openHandles = {} /\ unflushed = 0
  /\ rxS = <<>> /\ rxB = <<>> /\ now = 0
  /\ out = NoOut /\ ev = NoEv /\ afterStop = FALSE

\* the inputs of one pass: bytes arriving on each channel, time passed since
\* the last pass, whether a conversion is ready, the storage answers
Fresh(s, in) ==
  [s EXCEPT !.now = @ + in.dt, !.rxS = @ \o in.aS, !.rxB = @ \o in.aB,
            !.out = NoOut, !.ev = NoEv]

Setup(e, tmo) ==
  /\ pc = "boot"
  /\ Install(setup([Cur EXCEPT !.out = NoOut, !.ev = NoEv], e, tmo))

Loop(in, e, tdone) ==
  /\ pc = "loop"
  /\ Install(loop(Fresh(Cur, in), e, in.rdy, tdone))

Wizard(in, e, tdone) ==
  /\ pc \in WizardPcs
  /\ Install(wizard(Fresh(Cur, in), e, in.rdy, tdone))

\* bounds on what the environment offers
MaxTestLines == 2
MaxQueue == 2
\* a channel is sent up to MaxQueue bytes at once, and new ones when the
\* program has read the last ones.
\* L: the last clock value and the last file number of the specification
Offered(in, L) ==
  /\ now + in.dt <= L[1]
  /\ in.aS # <<>> => rxS = <<>>
  /\ in.aB # <<>> => rxB = <<>>
  /\ Len(in.aS) <= MaxQueue /\ Len(in.aB) <= MaxQueue
  /\ variant = "uno" => in.aB = <<>>
  /\ "s" \in Range(in.aS) \cup Range(in.aB) => fileCounter < L[2]
  /\ "d" \in Range(in.aS) \cup Range(in.aB) =>
       (testFileName \in DOMAIN files => Len(files[testFileName]) < MaxTestLines)

\* the storage answers that can matter to the pass, among E
EnvsFor(in, E) ==
  IF {"s", "d"} \cap (Range(rxS \o in.aS) \cup Range(rxB \o in.aB)) # {} THEN E
  ELSE IF dataFile # NoFile THEN E \cap {EnvOK, EnvFull}
  ELSE {EnvOK}
TdoneFor(in) == IF tare = "busy" /\ in.rdy THEN BOOLEAN ELSE {FALSE}

Inputs(Arr, Smp) ==
  {[aS |-> a[1], aB |-> a[2], dt |-> m[1], rdy |-> m[2]] : a \in Arr, m \in Smp}

\* one pass of loop() / of a wizard wait loop, on inputs from the given sets
Pass(Arr, Smp, E, L) ==
  \E in \in Inputs(Arr, Smp) :
    /\ Offered(in, L)
    /\ \E e \in EnvsFor(in, E), tdone \in TdoneFor(in) : Loop(in, e, tdone)
WizPass(Arr, Smp, E, L) ==
  \E in \in Inputs(Arr, Smp) :
    /\ Offered(in, L)
    /\ \E e \in EnvsFor(in, E), tdone \in TdoneFor(in) : Wizard(in, e, tdone)

One(B) == {<< <<b>>, <<>> >> : b \in B} \cup {<< <<>>, <<b>> >> : b \in B}
Pairs(B1, B2) == {<< <<a>>, <<b>> >> : a \in B1, b \in B2}
Quiet == {<< <<>>, <<>> >>}
\* time steps: none, or just past the 20 ms gate
TickGate == serialPrintInterval + 1
SmpCoarse == {<<0, FALSE>>, <<TickGate, TRUE>>}

----------------------------------------------------------------------------
(* Spec: sessions and storage.  Start, stop and self-test on both channels, *)
(* every storage answer, a card that holds log files of earlier runs.       *)

Lim == <<MaxTime, MaxIndex>>
ArrStore == Quiet \cup One({"s", "x", "d"}) \cup Pairs({"s"}, {"s", "x"})
Init == InitWith(Variants, SUBSET (0..(MaxPre - 1)), {NoCal})
Boot == \E e \in {EnvOK, EnvAbsent} : Setup(e, "none")
PassStore == Pass(ArrStore, SmpCoarse, Envs, Lim)
Next == Boot \/ PassStore
Spec == Init /\ [][Next]_vars

----------------------------------------------------------------------------
(* SpecCmd: the command console.  Every command byte on both channels, one  *)
(* at a time or one on each; the wizards answered with a tare, a mass and a *)
(* refusal to save; an empty card that works.                               *)

CmdBytes == {"t", "r", "c", "s", "x", "p", "d", "b", "m", "q"}
ArrCmd == Quiet \cup One(CmdBytes) \cup Pairs({"s", "p"}, {"x", "p"})
ArrWiz == Quiet \cup One({"t", "5", "n"})
InitCmd == InitWith(Variants, {{}}, {NoCal})
BootCmd == Setup(EnvOK, "none")
LimCmd == <<MaxTime, MaxIndexCmd>>
PassCmd == Pass(ArrCmd, SmpCoarse, {EnvOK}, LimCmd)
WizCmd == WizPass(ArrWiz, {<<0, TRUE>>}, {EnvOK}, LimCmd)
NextCmd == BootCmd \/ PassCmd \/ WizCmd
SpecCmd == InitCmd /\ [][NextCmd]_vars

----------------------------------------------------------------------------
(* Claims on sessions and storage, checked under Spec *)

\* the one command the last step handed to the command handler, or ""
OnlyCmd(e) == IF Len(e.cmds) = 1 THEN e.cmds[1][2] ELSE ""

\* C1: whatever starts and stops were processed, in any order and with
\* repeats, at most one log file handle is open at any time.
C1_AtMostOneHandleOpen == Cardinality(openHandles) <= 1

\* C4: the name a start opens was not present on storage immediately before
\* that start: no start overwrites, truncates, removes or appends to a log
\* file that exists, and no index is used for two sessions.
C4_StartOpensFreshName == ev.existed = {}

\* C6: a start processed in Standby whose log file cannot be opened (or with
\* storage unavailable) still enters Measuring, without a log handle, and the
\* console reports it; in every build.
C6_FailedOpenStillMeasures ==
  [][(pc = "loop" /\ currentMode = MODE_STANDBY /\ ~testRunning
        /\ OnlyCmd(ev') = "s" /\ ev'.opened = {})
     => (testRunning' /\ currentMode' = MeasMode(Cur) /\ dataFile' = NoFile
           /\ out'.S # <<>>)]_vars

\* C7: a stop processed in any Measuring state ends with the run state
\* cleared, the mode Standby and no log handle open.
C7_StopLeavesNoHandle ==
  [][(pc = "loop" /\ testRunning /\ currentMode = MeasMode(Cur) /\ OnlyCmd(ev') = "x")
     => (~testRunning' /\ currentMode' = MODE_STANDBY /\ dataFile' = NoFile
           /\ openHandles' = {})]_vars

----------------------------------------------------------------------------
(* Claims on the command console, checked under SpecCmd *)

\* C2: once a stop has been processed, no data row is appended to a log file
\* and none is written to a console until the next start is processed,
\* whatever samples and other commands arrive in between.
C2_NoRowsAfterStop ==
  [][afterStop => (ev'.rows = 0 /\ ev'.appended = {})]_vars

\* C2, its case: a reading passed the 20 ms gate in a step after the stop
C2_SampledAfterStop == afterStop /\ ev.sampled /\ ~ev.stopped /\ ~ev.started

\* one pass of loop() from the current state with byte c arriving on the
\* wired channel / on Bluetooth; m: time step and reading, e: storage answers
OnWired(c, m, e, td) ==
  loop(Fresh(Cur, [aS |-> <<c>>, aB |-> <<>>, dt |-> m[1], rdy |-> m[2]]), e, m[2], td)
OnBluetooth(c, m, e, td) ==
  loop(Fresh(Cur, [aS |-> <<>>, aB |-> <<c>>, dt |-> m[1], rdy |-> m[2]]), e, m[2], td)

\* the state a step leaves, without the channel the byte came from
Core(s) == [s EXCEPT !.ret = "serial", !.echo = "", !.ev.cmds = <<>>, !.out = NoOut]
Receipt(c) == "Received command: " \o c
WithoutReceipt(s, c) ==
  IF s.variant = "bt" THEN SelectSeq(s.out.B, LAMBDA l : l # Receipt(c)) ELSE s.out.B
BothIdle == pc = "loop" /\ HasBT(Cur) /\ btEnabled /\ rxS = <<>> /\ rxB = <<>>
Symmetric(same(_, _, _)) ==
  BothIdle =>
    \A c \in CmdBytes, m \in SmpCoarse :
      \A e \in (IF c \in {"s", "d"} THEN Envs ELSE {EnvOK, EnvFull}) :
      \A td \in TdoneFor([rdy |-> m[2]]) :
        same(OnWired(c, m, e, td), OnBluetooth(c, m, e, td), c)

SameAll(a, b, c) == Core(a) = Core(b) /\ a.out = b.out
SameButReceipt(a, b, c) ==
  /\ Core(a) = Core(b)
  /\ a.out.S = b.out.S
  /\ a.out.B = WithoutReceipt(b, c)
  /\ (b.variant = "bt" /\ b.pc = "loop") =>
       Len(b.out.B) = Len(a.out.B) + 1

C10_DisabledChannelNotPolled ==
  [][~btEnabled =>
       \A i \in DOMAIN ev'.cmds :
         ev'.cmds[i][1] = "B" => \E j \in 1..(i - 1) : ev'.cmds[j] = <<"S", "b">>]_vars

----------------------------------------------------------------------------
(* SpecPoll: the two polls of loop().  Start, stop and plot toggle, one at  *)
(* a time, one on each channel, or up to MaxQueue in a row on one channel;  *)
(* an empty card that works.                                                *)

PollBytes == {"s", "x", "p"}
Bursts == UNION {[1..k -> PollBytes] : k \in 2..MaxQueue}
Burst == {<<q, <<>> >> : q \in Bursts} \cup {<< <<>>, q>> : q \in Bursts}
ArrPoll == Quiet \cup One(PollBytes) \cup Pairs(PollBytes, PollBytes) \cup Burst
PassPoll == Pass(ArrPoll, SmpCoarse, {EnvOK}, LimCmd)
NextPoll == BootCmd \/ PassPoll
SpecPoll == InitCmd /\ [][NextPoll]_vars

----------------------------------------------------------------------------
(* SpecBoot: setup() on a card that holds any of the log files             *)
(* TEST0..TEST<MaxPreBoot-1>, mounted or not, with any content of the       *)
(* nonvolatile cell and any outcome of the sensor's start-up.               *)

MaxPreBoot == 6
\* what boot can find in the nonvolatile cell: nothing, NaN, zero, a factor
\* saved earlier, a negative number
BootCals == {NoCal, NaNCal, 0, SavedCal, -5}
\* the sensor's start-up: fine, or one of the driver's timeout flags raised
Timeouts == {"none", "tare", "signal"}
InitBoot == InitWith(Variants, SUBSET (0..(MaxPreBoot - 1)), BootCals)
NextBoot == \E e \in {EnvOK, EnvAbsent}, tmo \in Timeouts : Setup(e, tmo)
SpecBoot == InitBoot /\ [][NextBoot]_vars

OnCard(i) == FileName(Cur, i) \in DOMAIN files

\* C5: the boot-time allocation picks the first index, going up from 0,
\* whose file name is not on storage; with the files of indices 0 to 4
\* present the next name has index 5.
C5_BootPicksFirstFreeIndex ==
  (pc = "loop" /\ sdCardPresent) =>
    /\ ~OnCard(fileCounter)
    /\ \A i \in 0..(fileCounter - 1) : OnCard(i)
    /\ ((\A i \in 0..4 : OnCard(i)) /\ ~OnCard(5)) => fileCounter = 5

\* C5, its case: booted with the files of indices 0 to 4 and no other
C5_FiveFilesNextIsFive ==
  pc = "loop" /\ sdCardPresent /\ (\A i \in 0..4 : OnCard(i)) /\ ~OnCard(5)
    /\ fileCounter = 5

----------------------------------------------------------------------------
(* SpecE2E: one session on a working card.  Start right after boot, then   *)
(* readings that become ready every 20 ms, 40 of them, while loop() runs    *)
(* 1 ms or 20 ms after its last pass; stop once the last reading has had    *)
(* two gate periods to be written.                                          *)

ReadingTimes == {stabilizingtime + 20 * k : k \in 1..40}
LastReading == stabilizingtime + 20 * 40
StopFrom == LastReading + 2 * TickGate
E2ESteps == {1, serialPrintInterval}
\* LoadCell.update() is true in the pass that follows a conversion
E2EIn(a, dt) ==
  [aS |-> a, aB |-> <<>>, dt |-> dt, rdy |-> ReadingTimes \cap ((now + 1)..(now + dt)) # {}]
E2EPass(a, dt) == Loop(E2EIn(a, dt), EnvOK, FALSE)

BootE2E == Setup(EnvOK, "none")
E2EStart == now = stabilizingtime /\ ~testRunning /\ fileCounter = 0 /\ E2EPass(<<"s">>, 0)
E2ETick == testRunning /\ \E dt \in E2ESteps : now + dt <= StopFrom /\ E2EPass(<<>>, dt)
E2EStop == testRunning /\ now = StopFrom /\ E2EPass(<<"x">>, 0)
NextE2E == BootE2E \/ E2EStart \/ E2ETick \/ E2EStop
SpecE2E == InitCmd /\ [][NextE2E]_vars

E2ELog == FileName(Cur, 0)
E2EDone == pc = "loop" /\ afterStop /\ now = StopFrom

\* C3: start, 40 readings ready at exactly 20 ms spacing while measuring,
\* stop: the log file then holds one header row followed by exactly 40 data
\* rows, and the storage handle is closed.
C3_FortyRowsLogged ==
  E2EDone =>
    /\ E2ELog \in DOMAIN files
    /\ Len(files[E2ELog]) = 41
    /\ files[E2ELog][1] \in {HeaderUno, HeaderEsp}
    /\ \A i \in 2..Len(files[E2ELog]) : files[E2ELog][i] = RowCSV
    /\ dataFile = NoFile /\ openHandles = {}

(***************************************************************************)
(* Claim on the console output, checked under SpecCmd                      *)
(***************************************************************************)

\* C11: in every pass after boot that leaves the Bluetooth switch alone, the
\* lines written to the Bluetooth channel are exactly the lines written to
\* the wired channel when Bluetooth is enabled, and none when it is disabled.
C11_OutputFollowsEnabledChannels ==
  [][(pc # "boot" /\ HasBT(Cur) /\ btEnabled' = btEnabled)
       => out'.B = (IF btEnabled THEN out'.S ELSE <<>>)]_vars

----------------------------------------------------------------------------
(* SpecCal: the calibration wizards and the sessions around them.  Entered  *)
(* with r or c from Standby or from a running session, logged or not, on    *)
(* either channel; answered with a tare, with positive, zero and negative   *)
(* numbers, with y, n and other bytes; a saved factor may be found at boot, *)
(* the card may be missing at boot and found by a later self-test.          *)

WizAnswers == {"t", "5", "-5", "0", "y", "n", "q"}
ArrCalCmd == Quiet \cup One({"r", "c", "s", "d", "q"})
ArrCalAns == Quiet \cup One(WizAnswers)
InitCal == InitWith(Variants, {{}}, {NoCal, SavedCal})
PassCal == Pass(ArrCalCmd, SmpCoarse, {EnvOK}, LimCmd)
WizCal == WizPass(ArrCalAns, {<<0, TRUE>>}, {EnvOK}, LimCmd)
NextCal == Boot \/ PassCal \/ WizCal
SpecCal == InitCal /\ [][NextCal]_vars

----------------------------------------------------------------------------
(* Claims on command dispatch and the session state, checked under SpecCal *)

\* one pass of loop() from the current state with no byte arriving
OnNothing(m, e, td) ==
  loop(Fresh(Cur, [aS |-> <<>>, aB |-> <<>>, dt |-> m[1], rdy |-> m[2]]), e, m[2], td)

\* bytes outside the command set that a terminal may send
UnknownBytes == {"q", "y", "5", "T"}
Strip(lines, c) == SelectSeq(lines, LAMBDA l : l # Receipt(c))

\* the pass with the byte, against the same pass without it
Dropped(same(_, _, _)) ==
  (pc = "loop" /\ rxS = <<>> /\ rxB = <<>>) =>
    \A c \in UnknownBytes, m \in SmpCoarse :
      \A td \in TdoneFor([rdy |-> m[2]]) :
        /\ same(OnWired(c, m, EnvOK, td), OnNothing(m, EnvOK, td), c)
        /\ HasBT(Cur) => same(OnBluetooth(c, m, EnvOK, td), OnNothing(m, EnvOK, td), c)

Silently(a, q, c) == Core(a) = Core(q) /\ a.out = q.out
ReceiptAtMost(a, q, c) ==
  /\ Core(a) = Core(q)
  /\ Strip(a.out.S, c) = q.out.S /\ Len(a.out.S) <= Len(q.out.S) + 1
  /\ Strip(a.out.B, c) = q.out.B /\ Len(a.out.B) <= Len(q.out.B) + 1
  /\ a.variant = "uno" => a.out = q.out
  /\ a.variant = "bt" => a.out.S = q.out.S

\* C12 as stated: a dispatched byte outside t, r, c, s, x, p, d, b, m changes
\* no state variable and produces no output.
C12_UnknownByteSilent == Dropped(Silently)

\* C12 as amended: such a byte changes no state variable, and the only
\* output it causes is the receipt line "Received command: <byte>" (ESP32
\* build: on every enabled channel; UNO Bluetooth build: on Bluetooth, for a
\* byte that came from Bluetooth; wired-only build: none).
C12_UnknownByteReceiptOnly == Dropped(ReceiptAtMost)

\* C12, its case: a byte outside the command set was dispatched from the loop
C12_UnknownDispatched ==
  pc = "loop" /\ Len(ev.cmds) = 1 /\ ev.cmds[1][2] = "q"

SessionKept(a) ==
  /\ a.currentMode = currentMode /\ a.testRunning = testRunning
  /\ a.dataFile = dataFile /\ a.openHandles = openHandles
  /\ a.fileCounter = fileCounter

\* C13: the commands t, p, b, d and m, processed in any session state
\* (Standby or Measuring, logged or unlogged), leave the mode, the run flag,
\* the open log handle and the file index as they were.
C13_AuxCommandsKeepSession ==
  (pc = "loop" /\ rxS = <<>> /\ rxB = <<>>) =>
    \A c \in {"t", "p", "b", "d", "m"}, m \in SmpCoarse, e \in Envs :
      \A td \in TdoneFor([rdy |-> m[2]]) :
        /\ SessionKept(OnWired(c, m, e, td))
        /\ HasBT(Cur) => SessionKept(OnBluetooth(c, m, e, td))

\* C13, its case: a self-test was processed while Measuring without a log
C13_SelfTestWhileUnlogged ==
  /\ testRunning /\ currentMode = MeasMode(Cur) /\ dataFile = NoFile
  /\ OnlyCmd(ev) = "d"

----------------------------------------------------------------------------
(* Claims on the calibration wizards, checked under SpecCal *)

\* C14: a calibration wizard is never active while a session is running:
\* in every wait state of a wizard the run flag is clear and no log handle
\* is open.
C14_NoWizardWhileSessionRuns ==
  pc \in WizardPcs => (~testRunning /\ dataFile = NoFile /\ openHandles = {})

\* a wizard's wait loop ended in this step and nothing was dispatched after it
WizardEnds == pc \in WizardPcs /\ pc' = "loop" /\ ev'.cmds = <<>>

\* C15: when either calibration flow completes, by any exit path, the mode
\* is Standby, the run flag is clear and no log handle is open.
C15_WizardEndsInStandby ==
  [][WizardEnds => (currentMode' = MODE_STANDBY /\ ~testRunning'
                      /\ dataFile' = NoFile /\ openHandles' = {})]_vars

\* one pass of a wizard's wait loop from the current state with answer b
\* arriving on the wired channel / on Bluetooth
AnswerWired(b) ==
  wizard(Fresh(Cur, [aS |-> <<b>>, aB |-> <<>>, dt |-> 0, rdy |-> TRUE]), EnvOK, TRUE, FALSE)
AnswerBluetooth(b) ==
  wizard(Fresh(Cur, [aS |-> <<>>, aB |-> <<b>>, dt |-> 0, rdy |-> TRUE]), EnvOK, TRUE, FALSE)
\* prop holds of the state left by answer b, whichever channel brings it
OnAnswer(b, prop(_)) ==
  /\ prop(AnswerWired(b))
  /\ HasBT(Cur) => prop(AnswerBluetooth(b))

NumberWaits == {"cal_mass", "ccf_val", "cl_mass", "cc_val"}
YnWaits == {"cal_yn", "ccf_yn", "cl_yn", "cc_yn"}
Waiting(W) == pc \in W /\ rxS = <<>> /\ rxB = <<>>
StaysWithFactor(a) == a.pc = pc /\ a.calFactor = calFactor /\ a.eeprom = eeprom

\* C16: a numeric entry that is not strictly positive is rejected: the
\* wizard stays in the same wait state and the calibration factor, in use
\* and persisted, is unchanged.
C16_NonPositiveEntryRejected ==
  Waiting(NumberWaits) => \A b \in {"0", "-5"} : OnAnswer(b, StaysWithFactor)

OtherBytes == {"q", "t", "5"}
StaysIgnoring(a) ==
  /\ a.pc = pc /\ a.currentMode = currentMode /\ a.wz = wz
  /\ a.calFactor = calFactor /\ a.eeprom = eeprom

\* C17: in the accept/reject step a byte other than y and n is ignored and
\* the wizard stays in that wait state.
C17_OtherByteIgnoredAtSaveStep ==
  Waiting(YnWaits) => \A b \in OtherBytes : OnAnswer(b, StaysIgnoring)

\* one pass, of loop() or of the wizard's wait loop, with byte b (or none,
\* "") arriving on channel ch; a tare in progress finishes on it
Feed(s, b, ch) ==
  LET in == [aS |-> IF ch = "S" /\ b # "" THEN <<b>> ELSE <<>>,
             aB |-> IF ch = "B" /\ b # "" THEN <<b>> ELSE <<>>,
             dt |-> 0, rdy |-> TRUE]
  IN IF s.pc = "loop" THEN loop(Fresh(s, in), EnvOK, TRUE, TRUE)
     ELSE wizard(Fresh(s, in), EnvOK, TRUE, TRUE)
RECURSIVE Session(_, _, _)
Session(s, bytes, ch) ==
  IF bytes = <<>> THEN s ELSE Session(Feed(s, Head(bytes), ch), Tail(bytes), ch)

\* a whole wizard, entered from the loop, answered and refused at the end
RefusedFull == << "r", "t", "", "5", "n" >>
RefusedManual == << "c", "5", "n" >>
Channels == IF HasBT(Cur) THEN {"S", "B"} ELSE {"S"}

\* C18: when the save question is answered n, the factor in use is the one
\* the load cell had before the wizard started and the persisted factor is
\* unchanged.
C18_RefusalRestoresFactor ==
  (pc = "loop" /\ rxS = <<>> /\ rxB = <<>> /\ tare = "idle") =>
    \A script \in {RefusedFull, RefusedManual}, ch \in Channels :
      LET a == Session(Cur, script, ch)
      IN a.pc = "loop" /\ a.calFactor = calFactor /\ a.eeprom = eeprom

AnyByte == CmdBytes \cup WizAnswers \cup {""}

\* C19: the persisted factor is changed only by a calibration wizard, and
\* only by the pass of its accept/reject step that receives y: no other byte
\* in any other state of the program, and nothing in setup(), changes it.
C19_PersistedOnlyOnYes ==
  /\ (pc \in {"loop"} \cup WizardPcs /\ rxS = <<>> /\ rxB = <<>>) =>
       \A b \in AnyByte, ch \in Channels :
         Feed(Cur, b, ch).eeprom # eeprom => (pc \in YnWaits /\ b = "y")
  /\ pc = "boot" =>
       \A e \in Envs : setup([Cur EXCEPT !.out = NoOut, !.ev = NoEv], e, "none").eeprom = eeprom

\* C19, its case: a wizard was answered y and its value is the persisted one
C19_FactorWasSaved ==
  pc = "loop" /\ ev.cmds = <<>> /\ eeprom \notin {NoCal, SavedCal} /\ out.S # <<>>

\* C20: in every state after boot the calibration factor in use is strictly
\* positive, and so is the persisted factor once one has been saved.
C20_FactorStrictlyPositive ==
  pc # "boot" => (calFactor > 0 /\ (eeprom # NoCal => eeprom > 0))

----------------------------------------------------------------------------
(* Claims on setup(), checked under SpecBoot *)

\* C21: once setup() has run, the calibration factor in use is the persisted
\* value when that is a strictly positive number, and the default 217.84
\* when the persisted value is absent, NaN or zero, in every build.
C21_BootFactorOrDefault ==
  pc = "loop" =>
    /\ eeprom \in {NoCal, NaNCal, 0} => calFactor = DefaultCal
    /\ (eeprom \notin {NoCal, NaNCal} /\ eeprom > 0) => calFactor = eeprom

\* C22: when the sensor reports a tare timeout or a signal timeout at boot,
\* setup() halts the device: it does not go on to the main loop, in any
\* build, whatever the card answers.
C22_TimeoutHaltsBoot ==
  pc = "boot" =>
    \A e \in {EnvOK, EnvAbsent}, tmo \in Timeouts \ {"none"} :
      setup([Cur EXCEPT !.out = NoOut, !.ev = NoEv], e, tmo).pc = "halt"

----------------------------------------------------------------------------
(* SpecFlush: sessions one after the other on a working card.  While a     *)
(* session runs, loop() runs once per reading, just past the 20 ms gate;    *)
(* MaxRows readings come in all, shared among the sessions.                 *)

MaxRows == 25
FlushUntil == stabilizingtime + MaxRows * TickGate
FlushPass(a, dt, rdy) ==
  Loop([aS |-> a, aB |-> <<>>, dt |-> dt, rdy |-> rdy], EnvOK, FALSE)
FlushStart == ~testRunning /\ fileCounter < MaxIndex /\ FlushPass(<<"s">>, 0, FALSE)
FlushTick == testRunning /\ now + TickGate <= FlushUntil /\ FlushPass(<<>>, TickGate, TRUE)
FlushStop == testRunning /\ FlushPass(<<"x">>, 0, FALSE)
NextFlush == BootCmd \/ FlushStart \/ FlushTick \/ FlushStop
SpecFlush == InitCmd /\ [][NextFlush]_vars

\* C23: while a log handle is open, the number of rows appended since the
\* last flush (or since the header flush at open) never exceeds 20, across
\* any number of sessions.  Between two passes of loop() the count is below
\* 20, so that the next row, appended before its flush, makes it 20 at most.
C23_UnflushedAtMostTwenty ==
  dataFile # NoFile => unflushed + 1 <= FlushEvery

\* C23, its case: a flush in a later session, fewer than 20 rows after its
\* header, the count of rows having been carried over from the session before
C23_FlushCarriedOver ==
  /\ dataFile # NoFile /\ ev.flushed = 1 /\ unflushed = 0
  /\ Len(files[dataFile]) < FlushEvery + 1

\* the next pass of loop(), one gate period on and with a reading ready,
\* under the storage answers e
NextRow(e) ==
  loop(Fresh(Cur, [aS |-> <<>>, aB |-> <<>>, dt |-> TickGate, rdy |-> TRUE]), e, TRUE, FALSE)
\* Measuring with a log whose next row is due to be flushed
FlushDue ==
  /\ pc = "loop" /\ rxS = <<>> /\ rxB = <<>>
  /\ testRunning /\ currentMode = MeasMode(Cur) /\ sdCardPresent /\ dataFile # NoFile
  /\ flushCounter + 1 >= FlushEvery

\* C24: when the flush of the log fails during a session, the pass writes a
\* warning to every enabled channel, which the same pass with a flush that
\* succeeds does not write, and the session continues: the row is emitted,
\* the mode stays Measuring and the run flag stays set.
C24_FailedFlushWarned ==
  FlushDue =>
    LET good == NextRow(EnvOK)
        bad == NextRow(EnvFull)
    IN /\ bad.ev.flushed = 1
       /\ bad.out.S # good.out.S
       /\ (HasBT(Cur) /\ btEnabled) => bad.out.B # good.out.B
       /\ bad.ev.rows = 1 /\ bad.testRunning /\ bad.currentMode = MeasMode(Cur)

----------------------------------------------------------------------------
(* Claims on the storage self-test, checked under Spec *)

\* one pass of loop() that handles the self-test command and nothing else
SelfTest(e) == OnWired("d", <<0, FALSE>>, e, FALSE)

\* C25: after the storage self-test the files on storage and their contents
\* are what they were before it ran: its temporary file is gone and no other
\* file was created, removed or modified.
C25_SelfTestLeavesStorage ==
  (pc = "loop" /\ rxS = <<>> /\ rxB = <<>>) => SelfTest(EnvOK).files = files

\* what a self-test pass reported, and what it read back
ReportsPass(a) ==
  (IF a.variant = "esp" THEN "SD card test completed successfully"
   ELSE "SD card test successful!") \in Range(a.out.S)
ReportsFail(a) ==
  Range(a.out.S) \cap
    {"Error reading test file!", "Error creating test file!", "SD card failed! Check wiring.",
     "ERROR: Failed to read test file!", "ERROR: File creation failed!",
     "ERROR: SD initialization failed!"} # {}
ReadBackIsMarker(a) ==
  IF a.variant = "esp"
  THEN ("Read test content: " \o TestLineEsp) \in Range(a.out.S)
  ELSE testFileName \in DOMAIN a.files /\ a.files[testFileName] = TestLinesUno

\* C26: the storage self-test reports pass only when what it read back from
\* its temporary file is the marker it wrote, and reports a failure
\* otherwise, also when the content differs or is empty.
C26_PassOnlyOnMarker ==
  (pc = "loop" /\ rxS = <<>> /\ rxB = <<>>) =>
    \A e \in Envs :
      LET a == SelfTest(e)
      IN /\ ReportsPass(a) => ReadBackIsMarker(a)
         /\ ~ReadBackIsMarker(a) => ReportsFail(a)

----------------------------------------------------------------------------
(* SpecCad: one session on a working card with readings that become ready  *)
(* faster than the gate: one every FastPeriod ms, loop() running every ms.  *)

MaxCadence == 700
FastPeriod == 10
CadUntil == stabilizingtime + MaxCadence
CadTick ==
  /\ testRunning /\ now + 1 <= CadUntil
  /\ Loop([aS |-> <<>>, aB |-> <<>>, dt |-> 1,
           rdy |-> (now + 1 - stabilizingtime) % FastPeriod = 0], EnvOK, FALSE)
NextCad == BootCmd \/ E2EStart \/ CadTick
SpecCad == InitCmd /\ [][NextCad]_vars

\* rows of the session so far, as the log holds them
CadRows == Len(files[E2ELog]) - 1
\* 20 ms windows of the session that have fully passed
CadWindows == (now - stabilizingtime) \div serialPrintInterval

\* C27: with readings ready faster than one per 20 ms, exactly one row is
\* emitted per 20 ms window.  Wherever the windows are taken to begin, the
\* rows emitted by the end of the k-th window of the session are then k,
\* give or take the one of a window cut by the session's start.
C27_OneRowPerWindow ==
  (testRunning /\ E2ELog \in DOMAIN files) =>
    (CadWindows - 1 <= CadRows /\ CadRows <= CadWindows + 1)

----------------------------------------------------------------------------
(* Claims on the wizard's tare step and on sampling, checked under SpecCmd *)

TareWaits == {"cal_tare", "cl_tare"}
\* the full calibration is asked for on channel ch, and one more pass of its
\* wait loop runs with nothing arriving
EnterFull(ch) == Session(Cur, << "r", "" >>, ch)

\* C28: the wizard advances to the reference-mass step only after a 't' was
\* received inside the wizard, the tare was issued and its completion was
\* then observed; a tare requested before the wizard was entered (here: still
\* in progress when 'r' arrives, and no 't' sent afterwards) does not let
\* step 1 complete.
C28_TareAskedInsideWizard ==
  (pc = "loop" /\ rxS = <<>> /\ rxB = <<>> /\ ~testRunning /\ tare = "busy") =>
    \A ch \in Channels : EnterFull(ch).pc \in TareWaits

\* data rows held by the log file f
RowsIn(fs, f) ==
  IF f \in DOMAIN fs THEN Len(SelectSeq(fs[f], LAMBDA l : l = RowCSV)) ELSE 0
NotMeasuring == currentMode # MeasMode(Cur) \/ pc \in WizardPcs

\* C29: no data row is emitted to a console and no row is appended to a log
\* while the mode is not Measuring: a sample that becomes ready in Standby or
\* while the calibration wizard is active is discarded.
C29_NoRowsOutsideMeasuring ==
  [][NotMeasuring =>
       /\ ev'.rows = 0
       /\ \A f \in DOMAIN files' : RowsIn(files', f) = RowsIn(files, f)]_vars
\* a sample was taken in Standby, with the run flag still set by a session
\* the wizard interrupted, and gave no row
C29_SampleDiscarded ==
  /\ pc = "loop" /\ currentMode = MODE_STANDBY /\ testRunning /\ dataFile # NoFile
  /\ ev.sampled /\ ev.cmds = <<>> /\ ev.rows = 0

----------------------------------------------------------------------------
(* SpecClock: sessions late in the life of the 32-bit microsecond counter.  *)
(* The board idles in Standby until shortly before micros() wraps, a        *)
(* session is started (then or right after boot) and rows follow each other *)
(* as fast as the gate lets them.                                           *)

\* micros() is 1000 * millis() modulo 2^32, that is 8 * ((125 * ms) mod 2^29):
\* the counter is kept in units of 8 us so that its width fits the checker's
\* integers
MicrosWrap8 == 2^29
micros8(ms) == (ms * 125) % MicrosWrap8
\* mtime = micros() / 1000000.0, as printed with three decimals: micros() in
\* whole milliseconds
mtime(ms) == micros8(ms) \div 125

MaxClockRows == 12
\* the last whole millisecond before micros() wraps
LastBeforeWrap == (MicrosWrap8 - 1) \div 125
IdleTo == LastBeforeWrap - (MaxClockRows \div 2) * TickGate
\* Standby passes until IdleTo, the last of them with a reading
ClockIdle ==
  /\ pc = "loop" /\ ~testRunning /\ now < IdleTo
  /\ FlushPass(<<>>, IdleTo - now, TRUE)
ClockStart == ~testRunning /\ fileCounter < MaxIndex /\ FlushPass(<<"s">>, 0, FALSE)
ClockTick ==
  /\ testRunning /\ dataFile # NoFile /\ RowsIn(files, dataFile) < MaxClockRows
  /\ FlushPass(<<>>, TickGate, TRUE)
ClockStop == testRunning /\ FlushPass(<<"x">>, 0, FALSE)
NextClock == BootCmd \/ ClockIdle \/ ClockStart \/ ClockTick \/ ClockStop
SpecClock == InitCmd /\ [][NextClock]_vars

\* C30: within one session the timestamps of successive emitted rows
\* strictly increase, the timestamp being taken from the 32-bit microsecond
\* counter.  (t holds millis() of the previous row once the session has one:
\* under SpecClock every pass of the gate in a session emits a row.)
C30_StampsIncrease ==
  [][(testRunning /\ dataFile # NoFile /\ RowsIn(files, dataFile) > 0 /\ ev'.rows = 1)
       => mtime(now') > mtime(t)]_vars

----------------------------------------------------------------------------
(* Claims on the plotter toggle, checked under SpecPoll *)

PlotFlipped(s) == [s EXCEPT !.plotterMode = ~@]
\* everything but the console and the layout flag itself
LogView(s) == [s EXCEPT !.plotterMode = FALSE, !.out = NoOut]
\* one pass of loop() from s: bytes a on the wired channel, time and reading m
PlotStep(s, a, m, e) ==
  loop(Fresh(s, [aS |-> a, aB |-> <<>>, dt |-> m[1], rdy |-> m[2]]), e, m[2], FALSE)
PlotArrivals == {<<>>} \cup {<<c>> : c \in PollBytes}

\* C31: the plotter toggle affects only the text layout of console output:
\* from two states that differ only in the toggle, the same pass (same bytes,
\* same reading, same storage answers) leaves the same log files, the same
\* decision to log the sample, and again states that differ only in the
\* toggle and the console text; so the same holds for every sequence.
C31_PlotterOnlyLayout ==
  (pc = "loop" /\ rxS = <<>> /\ rxB = <<>>) =>
    \A a \in PlotArrivals, m \in SmpCoarse, e \in {EnvOK, EnvFull, EnvAbsent} :
      LogView(PlotStep(PlotFlipped(Cur), a, m, e)) = LogView(PlotStep(Cur, a, m, e))
\* a row went to the console in the plotter layout and to the log
C31_RowLoggedWhilePlotting ==
  /\ plotterMode /\ ev.rows = 1 /\ dataFile \in ev.appended
  /\ RowPlot \in Range(out.S)
  /\ files[dataFile][Len(files[dataFile])] = RowCSV

----------------------------------------------------------------------------
(* Claims on the run flag, the file index and stop *)

\* C32: at every boundary between two iterations of loop() the run flag is
\* set if and only if the mode is Measuring, whatever commands came before,
\* 'r' and 'c' received while Measuring included.  (Checked under SpecCal.)
C32_RunFlagIffMeasuring ==
  pc = "loop" => (testRunning <=> currentMode = MeasMode(Cur))

\* the pass processed a start, its log file was opened and holds its header
StartedWithLog ==
  /\ OnlyCmd(ev') = "s" /\ ev'.started /\ ev'.opened # {}
  /\ \E f \in ev'.opened :
       /\ f \in DOMAIN files' /\ files'[f] # <<>>
       /\ files'[f][Len(files'[f])] \in {HeaderUno, HeaderEsp}
\* the pass processed a start and opened no file
StartedWithoutLog == OnlyCmd(ev') = "s" /\ ev'.opened = {}

\* C33: the file index never decreases: it increases by exactly one on each
\* start whose log file was opened (and its header written) successfully, and
\* is unchanged by a start whose open failed, by stop and by every other
\* command.  (One command a pass at most is looked at; checked under Spec.)
C33_IndexStepsWithLogs ==
  [][(pc = "loop" /\ Len(ev'.cmds) <= 1) =>
       /\ fileCounter' >= fileCounter
       /\ StartedWithLog => fileCounter' = fileCounter + 1
       /\ (StartedWithoutLog \/ OnlyCmd(ev') # "s") => fileCounter' = fileCounter]_vars

\* what a session consists of: mode, run flag, log handle(s), file index and
\* the storage contents
SessionState(s) ==
  << s.currentMode, s.testRunning, s.dataFile, s.openHandles, s.fileCounter, s.files >>

\* C34: stop is idempotent: an 'x' processed in Standby changes no state
\* (mode, run flag, log handle, file index, storage contents), so the state
\* after 'x','x' equals the state after a single 'x'.  (Checked under
\* SpecCal, the byte arriving on either channel.)
C34_StopInStandbyChangesNothing ==
  (pc = "loop" /\ rxS = <<>> /\ rxB = <<>> /\ currentMode = MODE_STANDBY) =>
    \A ch \in Channels :
      /\ SessionState(Feed(Cur, "x", ch)) = SessionState(Cur)
      /\ SessionState(Session(Cur, << "x", "x" >>, ch)) = SessionState(Feed(Cur, "x", ch))

\* C35: in every session the forced flushes fall on that session's own row
\* count: the k-th forced flush of a session happens immediately after the
\* 20*k-th row appended in that session, however many rows earlier sessions
\* appended.  So a pass that forced a flush leaves a multiple of 20 rows in
\* the session's log, and a log that reached a multiple of 20 rows was
\* flushed in that pass.  (Checked under SpecFlush.)
C35_FlushOnSessionRowCount ==
  (dataFile # NoFile /\ ev.rows = 1 /\ dataFile \in ev.appended) =>
    (ev.flushed = 1 <=> RowsIn(files, dataFile) % FlushEvery = 0)

====
